---- MODULE Spec2Model ----
(***************************************************************************)
(* Device Indicator Checker (modem_checker.ino): the serial command loop,  *)
(* the indicator classification for the three sensor types, the relay      *)
(* reboot and the controller reset.                                        *)
(*                                                                         *)
(* Text is modelled as a sequence of one-character strings, so that        *)
(* toLowerCase, trim, startsWith and endsWith are computed.  The serial    *)
(* output of the current response is the sequence out of tokens            *)
(* [k |-> kind of line, v |-> the numbers printed in it].                  *)
(***************************************************************************)
EXTENDS Integers, Sequences, FiniteSets, TLC

(***************************************************************************)
(* Configuration values of the sketch.                                     *)
(***************************************************************************)
BlinkDiff == 140
LowerLimit == 180
RebootDelay == 30
InterCheckDelay == 150
PhotoresistorPin == 0
RelayPin == 12
ResetPin == 5
\* "how many indicator checks (min is 2)"
MinChecks == 2
\* width of int on the AVR boards the sketch targets
IntBits == 16
\* the poll limit of the as726x data-ready loop
PollLimit == 10000

(***************************************************************************)
(* Bounds of the model.                                                    *)
(***************************************************************************)
\* largest NumberOfChecks a build is given
MaxChecks == 3
\* the data-ready polls of one measurement are counted up to here
MaxPolls == 2

SensorTypes == {"photoresistor", "as726x", "tcs34725", "bogus"}

\* analogRead() results (10 bit ADC): around LowerLimit and BlinkDiff apart
PhotoValues == {40, 179, 180, 320}

\* raw uint16_t channel vectors of the AS726x (R, O, Y, G, B, V)
AsVectors ==
    { <<0, 0, 0, 0, 0, 0>>,
      <<180, 180, 180, 180, 180, 185>>,
      <<320, 320, 320, 320, 320, 325>>,
      <<40000, 20000, 20000, 20000, 20000, 20000>> }

\* raw uint16_t channel vectors of the TCS34725 (r, g, b)
TcsVectors ==
    { <<0, 0, 0>>,
      <<180, 180, 181>>,
      <<320, 321, 320>>,
      <<40000, 40000, 40000>> }

\* what an int read outside an array's bounds may hold
GarbageInts == {-1000, 0, 1000}

(***************************************************************************)
(* Text: characters, normalisation, prefix and suffix tests.               *)
(***************************************************************************)
UpperChars == <<"A", "B", "C", "D", "E", "F", "G", "H", "I", "J", "K", "L", "M", "N", "O", "P", "Q", "R", "S", "T", "U", "V", "W", "X", "Y", "Z">>
LowerChars == <<"a", "b", "c", "d", "e", "f", "g", "h", "i", "j", "k", "l", "m", "n", "o", "p", "q", "r", "s", "t", "u", "v", "w", "x", "y", "z">>

\* isspace() in the C locale (the vertical tab has no TLA+ escape)
IsSpace(c) == c \in {" ", "\t", "\n", "\r", "\f"}

ToLowerChar(c) ==
    IF \E k \in 1..Len(UpperChars) : UpperChars[k] = c
    THEN LowerChars[CHOOSE k \in 1..Len(UpperChars) : UpperChars[k] = c]
    ELSE c

\* String::toLowerCase
ToLowerCase(s) == [k \in 1..Len(s) |-> ToLowerChar(s[k])]

\* String::trim: drops the leading and the trailing isspace() characters
Trim(s) ==
    IF \A k \in 1..Len(s) : IsSpace(s[k])
    THEN <<>>
    ELSE LET first == CHOOSE a \in 1..Len(s) :
                          /\ ~IsSpace(s[a])
                          /\ \A k \in 1..(a - 1) : IsSpace(s[k])
             last  == CHOOSE b \in 1..Len(s) :
                          /\ ~IsSpace(s[b])
                          /\ \A k \in (b + 1)..Len(s) : IsSpace(s[k])
         IN  SubSeq(s, first, last)

\* String::startsWith
StartsWith(s, p) == Len(p) <= Len(s) /\ SubSeq(s, 1, Len(p)) = p

\* String::endsWith
EndsWith(s, p) == Len(p) <= Len(s) /\ SubSeq(s, Len(s) - Len(p) + 1, Len(s)) = p

\* the normalisation without the trim
Normalize_NoTrim(line) == ToLowerCase(line)

\* loop(): readString, toLowerCase, trim
Normalize(line) == Trim(ToLowerCase(line))

S_status == <<"s", "t", "a", "t", "u", "s">>
S_verbose == <<"v", "e", "r", "b", "o", "s", "e">>
S_reboot == <<"r", "e", "b", "o", "o", "t">>
S_reset == <<"r", "e", "s", "e", "t">>
S_help == <<"h", "e", "l", "p">>
S_settings == <<"s", "e", "t", "t", "i", "n", "g", "s">>
S_ping == <<"p", "i", "n", "g">>
S_version == <<"v", "e", "r", "s", "i", "o", "n">>

L_StatusVerbosePadded == <<" ", "S", "T", "A", "T", "U", "S", " ", "V", "E", "R", "B", "O", "S", "E", " ">>
L_StatusVerbose == <<"s", "t", "a", "t", "u", "s", " ", "v", "e", "r", "b", "o", "s", "e">>
L_Status == <<"s", "t", "a", "t", "u", "s">>
L_StatusCRLF == <<"S", "t", "a", "t", "u", "s", "\r", "\n">>
L_StatusNow == <<"s", "t", "a", "t", "u", "s", " ", "n", "o", "w">>
L_StatusVerboseGlued == <<"s", "t", "a", "t", "u", "s", "v", "e", "r", "b", "o", "s", "e">>
L_VerboseStatus == <<"v", "e", "r", "b", "o", "s", "e", " ", "s", "t", "a", "t", "u", "s">>
L_Reboot == <<"r", "e", "b", "o", "o", "t">>
L_RebootUpperNL == <<"R", "E", "B", "O", "O", "T", "\n">>
L_RebootNow == <<"r", "e", "b", "o", "o", "t", " ", "n", "o", "w">>
L_Empty == <<>>
L_Blank == <<" ", "\r", "\n">>
L_Reset == <<"r", "e", "s", "e", "t">>
L_Help == <<"h", "e", "l", "p">>
L_Settings == <<"\t", "S", "e", "t", "t", "i", "n", "g", "s">>
L_Ping == <<"p", "i", "n", "g">>
L_Version == <<"v", "e", "r", "s", "i", "o", "n">>
L_Foo == <<"f", "o", "o">>

\* the lines Serial.readString() may return
InputLines ==
    { L_StatusVerbosePadded, L_StatusVerbose, L_Status, L_StatusCRLF, L_StatusNow,
      L_StatusVerboseGlued, L_VerboseStatus, L_Reboot, L_RebootUpperNL, L_RebootNow,
      L_Empty, L_Blank, L_Reset, L_Help, L_Settings, L_Ping, L_Version, L_Foo }

(***************************************************************************)
(* State.                                                                  *)
(***************************************************************************)
VARIABLES
    SensorType,        \* configuration: the sensor type of the build
    NumberOfChecks,    \* configuration: samples per status command
    settings,          \* configuration: the other globals set at the top of the sketch
    AS726xStarted,     \* setup(): ams.begin() succeeded
    TCS34725Started,   \* setup(): tcs.begin() succeeded
    amsHung,           \* environment: the AS726x never signals data-ready
    relayPin,          \* level of RelayPin
    resetPinMode,      \* mode of ResetPin
    resetPin,          \* level driven on ResetPin once it is an output
    sensorValues,      \* global buffer of the last AS726x raw values
    pc,                \* position of loop() / indicatorStatus()
    rawLine,           \* what readString() returned
    serInput,          \* the normalized line
    cmd,               \* the branch of loop() that was taken
    verbose,           \* argument of indicatorStatus
    i,                 \* loop index of the running for loop
    photoStatus,       \* photoresistor: the readings collected so far
    asReadings,        \* as726x / tcs34725: the int rows collected so far
    notReadyCount,     \* as726x poll loop: its counter
    rdy,               \* as726x poll loop: the last ams.dataReady()
    polls,             \* data-ready polls of the running measurement (capped)
    reads,             \* samples read by the running command
    sleeps,            \* delay() calls made by the running command
    out,               \* the tokens written since the line was taken
    seen,              \* the raw readings the running command has taken
    track,             \* whether first is recorded
    first              \* the readings and the result of the first classification

vars == <<SensorType, NumberOfChecks, AS726xStarted, TCS34725Started, amsHung,
          relayPin, resetPinMode, resetPin, sensorValues, pc, rawLine, serInput,
          cmd, verbose, i, photoStatus, asReadings, notReadyCount, rdy, polls,
          reads, sleeps, out, settings, seen, track, first>>

config == <<SensorType, NumberOfChecks, settings, AS726xStarted, TCS34725Started,
           amsHung, track>>
pins == <<relayPin, resetPinMode, resetPin>>
locals == <<verbose, i, photoStatus, asReadings, notReadyCount, rdy, polls>>

(***************************************************************************)
(* Integer arithmetic of the sketch.                                       *)
(***************************************************************************)
Pow2(n) == 2 ^ n

\* a value stored in an int: kept modulo 2^IntBits, two's complement
ToInt(u) ==
    LET m == u % Pow2(IntBits)
    IN  IF m >= Pow2(IntBits - 1) THEN m - Pow2(IntBits) ELSE m

\* C integer division truncates toward zero
TruncDiv(a, b) == IF a >= 0 THEN a \div b ELSE -((-a) \div b)

RECURSIVE SumInt(_)
\* sum = sum + asReadings[i][x], in int
SumInt(row) == IF row = <<>> THEN 0 ELSE ToInt(Head(row) + SumInt(Tail(row)))

\* sensorAvg[i] = sum / 6 (as726x), sum / 3 (tcs34725)
AvgOf(row) == TruncDiv(SumInt(row), Len(row))

RECURSIVE Insert(_, _)
Insert(x, s) ==
    IF s = <<>> THEN <<x>>
    ELSE IF x <= Head(s) THEN <<x>> \o s
    ELSE <<Head(s)>> \o Insert(x, Tail(s))

RECURSIVE SortArray(_)
\* sortArray(array, n) of ArduinoSort: ascending
SortArray(s) == IF s = <<>> THEN <<>> ELSE Insert(Head(s), SortArray(Tail(s)))

\* the threshold rules on the smallest and the largest intensity, lower limit first
Decide_LimitFirst(lo, hi) ==
    IF lo < settings.LowerLimit THEN "Off"
    ELSE IF (hi - lo) > settings.BlinkDiff THEN "Blinking"
    ELSE "On"

\* the threshold rules with the comparisons made inclusive
Decide_Inclusive(lo, hi) ==
    IF (hi - lo) >= settings.BlinkDiff THEN "Blinking"
    ELSE IF lo <= settings.LowerLimit THEN "Off"
    ELSE "On"

\* the threshold rules on the smallest and the largest intensity
Decide(lo, hi) ==
    IF (hi - lo) > settings.BlinkDiff THEN "Blinking"
    ELSE IF lo < settings.LowerLimit THEN "Off"
    ELSE "On"

RECURSIVE HighestFrom(_, _, _)
\* highestReading = {highest avg, its check}: scan of sensorAvg from check k on
HighestFrom(avgs, k, best) ==
    IF k > Len(avgs) THEN best
    ELSE HighestFrom(avgs, k + 1,
                     IF avgs[k] > best[1] THEN <<avgs[k], k - 1>> ELSE best)

HighestReading(avgs) == HighestFrom(avgs, 1, <<0, 0>>)

Last(s) == s[Len(s)]

Tok(k, v) == [k |-> k, v |-> v]
EOT == Tok("EOT", <<>>)

\* the else-if chain of loop() with "reboot" matched as a prefix
Dispatch_PrefixReboot(s) ==
    IF StartsWith(s, S_status) THEN "status"
    ELSE IF StartsWith(s, S_reboot) THEN "reboot"
    ELSE IF s = S_reset THEN "reset"
    ELSE IF s = S_help THEN "help"
    ELSE IF s = S_settings THEN "settings"
    ELSE IF s = S_ping THEN "ping"
    ELSE IF s = S_version THEN "version"
    ELSE "unknown"

\* the else-if chain of loop(): which branch a normalized line takes
Dispatch(s) ==
    IF StartsWith(s, S_status) THEN "status"
    ELSE IF s = S_reboot THEN "reboot"
    ELSE IF s = S_reset THEN "reset"
    ELSE IF s = S_help THEN "help"
    ELSE IF s = S_settings THEN "settings"
    ELSE IF s = S_ping THEN "ping"
    ELSE IF s = S_version THEN "version"
    ELSE "unknown"

\* the globals as initialised at the top of the sketch
StartupSettings ==
    [ PhotoresistorPin |-> PhotoresistorPin, RelayPin |-> RelayPin, ResetPin |-> ResetPin,
      BlinkDiff |-> BlinkDiff, LowerLimit |-> LowerLimit,
      InterCheckDelay |-> InterCheckDelay, RebootDelay |-> RebootDelay ]

\* no classification seen yet
NoFirst == [set |-> FALSE, samples |-> <<>>, result |-> EOT]

\* the state after setup(), for a build with NumberOfChecks in counts
InitWith(counts) ==
    /\ SensorType \in SensorTypes
    /\ NumberOfChecks \in counts
    /\ settings = StartupSettings
    /\ AS726xStarted \in BOOLEAN
    /\ TCS34725Started \in BOOLEAN
    /\ amsHung \in BOOLEAN
    /\ relayPin = "LOW"
    /\ resetPinMode = "INPUT_PULLUP"
    /\ resetPin = "HIGH"
    /\ sensorValues = <<0, 0, 0, 0, 0, 0>>
    /\ pc = "wait"
    /\ rawLine = <<>>
    /\ serInput = <<>>
    /\ cmd = "none"
    /\ verbose = FALSE
    /\ i = 0
    /\ photoStatus = <<>>
    /\ asReadings = <<>>
    /\ notReadyCount = 0
    /\ rdy = FALSE
    /\ polls = 0
    /\ reads = 0
    /\ sleeps = 0
    /\ out = <<>>
    /\ seen = <<>>
    /\ first = NoFirst

\* builds that respect the documented minimum of NumberOfChecks
Init == InitWith(MinChecks..MaxChecks) /\ track = FALSE

\* builds with any NumberOfChecks: the sketch checks nothing at startup
InitAnyCount == InitWith(0..MaxChecks) /\ track = FALSE

(***************************************************************************)
(* loop(): wait for a line, normalize it, dispatch.                        *)
(***************************************************************************)
\* array[k] of a C array holding the elements of arr; outside the bounds any int
ArrayRead(arr, k) == IF k \in 0..(Len(arr) - 1) THEN {arr[k + 1]} ELSE GarbageInts

\* rows[k] of a C array of rows of width w; outside the bounds any ints
RowRead(rows, k, w) ==
    IF k \in 0..(Len(rows) - 1) THEN {rows[k + 1]}
    ELSE {[x \in 1..w |-> g] : g \in GarbageInts}

\* serInput.endsWith("verbose")
IsVerbose(s) == EndsWith(s, S_verbose)

Say(k) == out' = Append(out, Tok(k, <<>>))

ReadLine ==
    /\ pc = "wait"
    /\ \E line \in InputLines :
          /\ rawLine' = line
          /\ serInput' = Normalize(line)
    /\ cmd' = "none"
    /\ out' = <<>>
    /\ reads' = 0
    /\ sleeps' = 0
    /\ pc' = "dispatch"
    /\ UNCHANGED <<config, first, seen, pins, sensorValues, locals>>

CmdStatus ==
    /\ pc = "dispatch"
    /\ Dispatch(serInput) = "status"
    /\ cmd' = "status"
    /\ verbose' = IsVerbose(serInput)
    /\ pc' = "status"
    /\ UNCHANGED <<config, first, seen, pins, sensorValues, rawLine, serInput, i, photoStatus,
                   asReadings, notReadyCount, rdy, polls, reads, sleeps, out>>

CmdReboot ==
    /\ pc = "dispatch"
    /\ Dispatch(serInput) = "reboot"
    /\ cmd' = "reboot"
    /\ Say("RebootStart")
    /\ relayPin' = "HIGH"
    /\ i' = 0
    /\ pc' = "rebootLoop"
    /\ UNCHANGED <<config, first, seen, resetPinMode, resetPin, sensorValues, rawLine, serInput,
                   verbose, photoStatus, asReadings, notReadyCount, rdy, polls, reads, sleeps>>

\* one pass of the reboot loop: a progress marker, then delay(1000)
RebootTick ==
    /\ pc = "rebootLoop"
    /\ i < settings.RebootDelay
    /\ Say("Dot")
    /\ sleeps' = sleeps + 1
    /\ i' = i + 1
    /\ UNCHANGED <<config, first, seen, pins, sensorValues, pc, rawLine, serInput, cmd, verbose,
                   photoStatus, asReadings, notReadyCount, rdy, polls, reads>>

\* the end of the reboot loop with the relay left as it is
RebootRelayLow_LeftHigh ==
    /\ pc = "rebootLoop"
    /\ i >= settings.RebootDelay
    /\ pc' = "rebootDone"
    /\ UNCHANGED <<config, first, seen, pins, sensorValues, rawLine, serInput, cmd, locals, reads,
                   sleeps, out>>

\* the loop is over: digitalWrite(RelayPin, LOW)
RebootRelayLow ==
    /\ pc = "rebootLoop"
    /\ i >= settings.RebootDelay
    /\ relayPin' = "LOW"
    /\ pc' = "rebootDone"
    /\ UNCHANGED <<config, first, seen, resetPinMode, resetPin, sensorValues, rawLine, serInput,
                   cmd, locals, reads, sleeps, out>>

\* "Reboot Completed"
RebootCompleted ==
    /\ pc = "rebootDone"
    /\ Say("RebootDone")
    /\ pc' = "eot"
    /\ UNCHANGED <<config, first, seen, pins, sensorValues, rawLine, serInput, cmd, locals, reads,
                   sleeps>>

\* "Resetting controller", then delay(500)
CmdReset ==
    /\ pc = "dispatch"
    /\ Dispatch(serInput) = "reset"
    /\ cmd' = "reset"
    /\ Say("ResetNotice")
    /\ pc' = "resetDrive"
    /\ UNCHANGED <<config, first, seen, pins, sensorValues, rawLine, serInput, locals, reads, sleeps>>

\* ResetDrive without the digitalWrite: the pin becomes an output, its level
\* is left as it was
ResetDrive_NoWrite ==
    /\ pc = "resetDrive"
    /\ resetPinMode' = "OUTPUT"
    /\ pc' = "eot"
    /\ UNCHANGED <<config, first, seen, relayPin, resetPin, sensorValues, rawLine, serInput,
                   cmd, locals, reads, sleeps, out>>

\* pinMode(ResetPin, OUTPUT); digitalWrite(ResetPin, LOW)
ResetDrive ==
    /\ pc = "resetDrive"
    /\ resetPinMode' = "OUTPUT"
    /\ resetPin' = "LOW"
    /\ pc' = "eot"
    /\ UNCHANGED <<config, first, seen, relayPin, sensorValues, rawLine, serInput, cmd, locals,
                   reads, sleeps, out>>

\* a branch that only prints
Reply(name, token) ==
    /\ Dispatch(serInput) = name
    /\ cmd' = name
    /\ Say(token)
    /\ pc' = "eot"
    /\ UNCHANGED <<config, first, seen, pins, sensorValues, rawLine, serInput, locals, reads, sleeps>>

\* the command strings the help text lists
HelpCommands ==
    {S_ping, S_settings, S_status, L_StatusVerbose, S_reboot, S_help, S_version}

CmdHelp ==
    /\ pc = "dispatch"
    /\ Reply("help", "Help")

\* a settings branch that also stores a value
CmdSettings_Store ==
    /\ pc = "dispatch"
    /\ Dispatch(serInput) = "settings"
    /\ cmd' = "settings"
    /\ Say("Settings")
    /\ pc' = "eot"
    /\ settings' = [settings EXCEPT !.InterCheckDelay = 0]
    /\ UNCHANGED <<SensorType, NumberOfChecks, AS726xStarted, TCS34725Started, amsHung,
                   track, first, seen, pins, sensorValues, rawLine, serInput, locals,
                   reads, sleeps>>

CmdSettings ==
    /\ pc = "dispatch"
    /\ Reply("settings", "Settings")

CmdPing ==
    /\ pc = "dispatch"
    /\ Reply("ping", "Pong")

CmdVersion ==
    /\ pc = "dispatch"
    /\ Reply("version", "Version")

CmdUnknown ==
    /\ pc = "dispatch"
    /\ Reply("unknown", "Unknown")

\* first keeps the readings and the result of the first classification made
Remember ==
    first' = IF track /\ ~first.set /\ cmd = "status"
                      /\ Last(out).k \in {"Blinking", "On", "Off"}
             THEN [set |-> TRUE, samples |-> seen, result |-> Last(out)]
             ELSE first

\* the end of loop() without the end-of-transmission byte
Eot_Silent ==
    /\ pc = "eot"
    /\ pc' = "wait"
    /\ verbose' = FALSE
    /\ i' = 0
    /\ photoStatus' = <<>>
    /\ asReadings' = <<>>
    /\ notReadyCount' = 0
    /\ rdy' = FALSE
    /\ polls' = 0
    /\ seen' = <<>>
    /\ Remember
    /\ UNCHANGED <<config, pins, sensorValues, rawLine, serInput, cmd, reads, sleeps, out>>

\* an end of command that keeps the sample arrays of indicatorStatus, as
\* static or global arrays would be kept
Eot_KeepArrays ==
    /\ pc = "eot"
    /\ out' = Append(out, EOT)
    /\ pc' = "wait"
    /\ verbose' = FALSE
    /\ i' = 0
    /\ notReadyCount' = 0
    /\ rdy' = FALSE
    /\ polls' = 0
    /\ seen' = <<>>
    /\ Remember
    /\ UNCHANGED <<config, pins, sensorValues, rawLine, serInput, cmd, reads, sleeps,
                   photoStatus, asReadings>>

\* Serial.write(0x04); loop() returns and its locals are gone
Eot ==
    /\ pc = "eot"
    /\ out' = Append(out, EOT)
    /\ pc' = "wait"
    /\ verbose' = FALSE
    /\ i' = 0
    /\ photoStatus' = <<>>
    /\ asReadings' = <<>>
    /\ notReadyCount' = 0
    /\ rdy' = FALSE
    /\ polls' = 0
    /\ seen' = <<>>
    /\ Remember
    /\ UNCHANGED <<config, pins, sensorValues, rawLine, serInput, cmd, reads, sleeps>>

(***************************************************************************)
(* indicatorStatus(verbose).                                               *)
(***************************************************************************)
Echo(v) == IF verbose THEN Append(out, Tok("Reading", v)) ELSE out

\* SensorType == "photoresistor": enter the sampling loop
StatusPhoto ==
    /\ pc = "status"
    /\ SensorType = "photoresistor"
    /\ i' = 0
    /\ pc' = "photoLoop"
    /\ UNCHANGED <<config, first, seen, pins, sensorValues, rawLine, serInput, cmd, verbose,
                   photoStatus, asReadings, notReadyCount, rdy, polls, reads, sleeps, out>>

\* analogRead, the verbose echo, photoStatus[i] = photocellReading
PhotoSample ==
    /\ pc = "photoLoop"
    /\ i < NumberOfChecks
    /\ \E v \in PhotoValues :
          /\ out' = Echo(<<v>>)
          /\ photoStatus' = Append(photoStatus, v)
          /\ seen' = Append(seen, <<v>>)
    /\ reads' = reads + 1
    /\ pc' = "photoDelay"
    /\ UNCHANGED <<config, first, pins, sensorValues, rawLine, serInput, cmd, verbose, i,
                   asReadings, notReadyCount, rdy, polls, sleeps>>

\* delay(InterCheckDelay) at the end of the loop body, then i++
PhotoDelay ==
    /\ pc = "photoDelay"
    /\ sleeps' = sleeps + 1
    /\ i' = i + 1
    /\ pc' = "photoLoop"
    /\ UNCHANGED <<config, first, seen, pins, sensorValues, rawLine, serInput, cmd, verbose,
                   photoStatus, asReadings, notReadyCount, rdy, polls, reads, out>>

\* sortArray, then the threshold rules on photoStatus[NumberOfChecks - 1] and [0]
PhotoClassify ==
    /\ pc = "photoLoop"
    /\ i >= NumberOfChecks
    /\ LET sorted == SortArray(photoStatus)
       IN  /\ photoStatus' = sorted
           /\ \E lo \in ArrayRead(sorted, 0), hi \in ArrayRead(sorted, NumberOfChecks - 1) :
                  Say(Decide(lo, hi))
    /\ pc' = "eot"
    /\ UNCHANGED <<config, first, seen, pins, sensorValues, rawLine, serInput, cmd, verbose, i,
                   asReadings, notReadyCount, rdy, polls, reads, sleeps>>

\* SensorType == "as726x": the availability check, then the sampling loop
StatusAs ==
    /\ pc = "status"
    /\ SensorType = "as726x"
    /\ IF ~AS726xStarted
       THEN /\ Say("ErrorAS726xConnect")
            /\ pc' = "eot"
            /\ i' = i
       ELSE /\ out' = out
            /\ pc' = "asLoop"
            /\ i' = 0
    /\ UNCHANGED <<config, first, seen, pins, sensorValues, rawLine, serInput, cmd, verbose,
                   photoStatus, asReadings, notReadyCount, rdy, polls, reads, sleeps>>

\* ams.startMeasurement(); bool rdy = false; int notReadyCount = 0
AsStartMeasurement ==
    /\ pc = "asLoop"
    /\ i < NumberOfChecks
    /\ rdy' = FALSE
    /\ notReadyCount' = 0
    /\ polls' = 0
    /\ pc' = "asPoll"
    /\ UNCHANGED <<config, first, seen, pins, sensorValues, rawLine, serInput, cmd, verbose, i,
                   photoStatus, asReadings, reads, sleeps, out>>

\* one pass of while (!rdy), first half: delay(5); rdy = ams.dataReady()
AsPoll ==
    /\ pc = "asPoll"
    /\ polls' = IF polls < MaxPolls THEN polls + 1 ELSE polls
    /\ rdy' \in (IF amsHung THEN {FALSE} ELSE BOOLEAN)
    /\ pc' = "asCheck"
    /\ UNCHANGED <<config, first, seen, pins, sensorValues, rawLine, serInput, cmd, verbose, i,
                   photoStatus, asReadings, notReadyCount, reads, sleeps, out>>

\* second half: the limit check, then the loop condition.
\* Nothing in the loop changes notReadyCount.
AsCheck ==
    /\ pc = "asCheck"
    /\ IF notReadyCount > PollLimit
       THEN /\ Say("ErrorAS726xNoData")
            /\ pc' = "eot"
       ELSE /\ out' = out
            /\ pc' = IF rdy THEN "asRead" ELSE "asPoll"
    /\ UNCHANGED <<config, first, seen, pins, sensorValues, rawLine, serInput, cmd, verbose, i,
                   photoStatus, asReadings, notReadyCount, rdy, polls, reads, sleeps>>

\* ams.readRawValues(sensorValues), the verbose echo, the copy into asReadings[i]
AsRead ==
    /\ pc = "asRead"
    /\ \E raw \in AsVectors :
          /\ sensorValues' = raw
          /\ seen' = Append(seen, raw)
          /\ out' = Echo(raw)
          /\ asReadings' = Append(asReadings, [x \in 1..6 |-> ToInt(raw[x])])
    /\ reads' = reads + 1
    /\ pc' = "asDelay"
    /\ UNCHANGED <<config, first, pins, rawLine, serInput, cmd, verbose, i, photoStatus,
                   notReadyCount, rdy, polls, sleeps>>

\* delay(InterCheckDelay) at the end of the loop body, then i++
AsDelay ==
    /\ pc = "asDelay"
    /\ sleeps' = sleeps + 1
    /\ i' = i + 1
    /\ pc' = "asLoop"
    /\ UNCHANGED <<config, first, seen, pins, sensorValues, rawLine, serInput, cmd, verbose,
                   photoStatus, asReadings, notReadyCount, rdy, polls, reads, out>>

\* the averages, highestReading, sortArray, the threshold rules and the line
\* printed for rows of width w
ClassifyRows(w) ==
    LET avgs   == [k \in 1..Len(asReadings) |-> AvgOf(SubSeq(asReadings[k], 1, w))]
        high   == HighestReading(avgs)
        sorted == SortArray(avgs)
    IN  \E lo \in ArrayRead(sorted, 0), hi \in ArrayRead(sorted, NumberOfChecks - 1) :
           LET d == Decide(lo, hi)
           IN  IF d = "Blinking"
               THEN \E row \in RowRead(asReadings, high[2], w) :
                       out' = Append(out, Tok(d, SubSeq(row, 1, w)))
               ELSE IF d = "On"
               THEN \E row \in RowRead(asReadings, 0, w) :
                       out' = Append(out, Tok(d, SubSeq(row, 1, w)))
               ELSE Say(d)

AsClassify ==
    /\ pc = "asLoop"
    /\ i >= NumberOfChecks
    /\ ClassifyRows(6)
    /\ pc' = "eot"
    /\ UNCHANGED <<config, first, seen, pins, sensorValues, rawLine, serInput, cmd, locals, reads,
                   sleeps>>

\* SensorType == "tcs34725": the sampling loop without the availability check
StatusTcs_NoCheck ==
    /\ pc = "status"
    /\ SensorType = "tcs34725"
    /\ pc' = "tcsLoop"
    /\ i' = 0
    /\ UNCHANGED <<config, first, seen, pins, sensorValues, rawLine, serInput, cmd,
                   verbose, photoStatus, asReadings, notReadyCount, rdy, polls, reads,
                   sleeps, out>>

\* SensorType == "tcs34725": the availability check, then the sampling loop
StatusTcs ==
    /\ pc = "status"
    /\ SensorType = "tcs34725"
    /\ IF ~TCS34725Started
       THEN /\ Say("ErrorTCS34725Connect")
            /\ pc' = "eot"
            /\ i' = i
       ELSE /\ out' = out
            /\ pc' = "tcsLoop"
            /\ i' = 0
    /\ UNCHANGED <<config, first, seen, pins, sensorValues, rawLine, serInput, cmd, verbose,
                   photoStatus, asReadings, notReadyCount, rdy, polls, reads, sleeps>>

\* tcs.getRawData, the verbose echo, asReadings[i][0..2] = r, g, b
\* (slots 3..5 of the row are never written and never read)
TcsSample ==
    /\ pc = "tcsLoop"
    /\ i < NumberOfChecks
    /\ \E raw \in TcsVectors :
          /\ out' = Echo(raw)
          /\ seen' = Append(seen, raw)
          /\ asReadings' = Append(asReadings, [x \in 1..3 |-> ToInt(raw[x])])
    /\ reads' = reads + 1
    /\ pc' = "tcsDelay"
    /\ UNCHANGED <<config, first, pins, sensorValues, rawLine, serInput, cmd, verbose, i,
                   photoStatus, notReadyCount, rdy, polls, sleeps>>

\* delay(InterCheckDelay) at the end of the loop body, then i++
TcsDelay ==
    /\ pc = "tcsDelay"
    /\ sleeps' = sleeps + 1
    /\ i' = i + 1
    /\ pc' = "tcsLoop"
    /\ UNCHANGED <<config, first, seen, pins, sensorValues, rawLine, serInput, cmd, verbose,
                   photoStatus, asReadings, notReadyCount, rdy, polls, reads, out>>

TcsClassify ==
    /\ pc = "tcsLoop"
    /\ i >= NumberOfChecks
    /\ ClassifyRows(3)
    /\ pc' = "eot"
    /\ UNCHANGED <<config, first, seen, pins, sensorValues, rawLine, serInput, cmd, locals, reads,
                   sleeps>>

\* any other SensorType
StatusInvalid ==
    /\ pc = "status"
    /\ SensorType \notin {"photoresistor", "as726x", "tcs34725"}
    /\ Say("ErrorInvalidSensorType")
    /\ pc' = "eot"
    /\ UNCHANGED <<config, first, seen, pins, sensorValues, rawLine, serInput, cmd, locals, reads,
                   sleeps>>

(***************************************************************************)
(* Specifications.                                                         *)
(***************************************************************************)
\* the steps the controller takes on its own once a line was taken
Step ==
    \/ CmdStatus \/ CmdReboot \/ CmdReset \/ CmdHelp \/ CmdSettings \/ CmdPing
    \/ CmdVersion \/ CmdUnknown
    \/ StatusPhoto \/ PhotoSample \/ PhotoDelay \/ PhotoClassify
    \/ StatusAs \/ AsStartMeasurement \/ AsPoll \/ AsCheck \/ AsRead \/ AsDelay \/ AsClassify
    \/ StatusTcs \/ TcsSample \/ TcsDelay \/ TcsClassify
    \/ StatusInvalid
    \/ RebootTick \/ RebootRelayLow \/ RebootCompleted \/ ResetDrive \/ Eot

Next == ReadLine \/ Step

Spec == Init /\ [][Next]_vars

\* the controller runs without a scheduler: a step that can be taken is taken
FairSpec == Init /\ [][Next]_vars /\ WF_vars(Step)

\* working sensors, with the first classification kept for comparison
InitTracked ==
    /\ InitWith(MinChecks..MaxChecks)
    /\ track = TRUE
    /\ AS726xStarted
    /\ TCS34725Started
    /\ ~amsHung

SpecTracked == InitTracked /\ [][Next]_vars

\* builds whose NumberOfChecks is not held to the documented minimum
SpecAnyCount == InitAnyCount /\ [][Next]_vars

(***************************************************************************)
(* Properties.                                                             *)
(***************************************************************************)
SetMax(S) == CHOOSE x \in S : \A y \in S : y <= x
SetMin(S) == CHOOSE x \in S : \A y \in S : x <= y
Range(s) == {s[k] : k \in 1..Len(s)}

\* the per-sample scalar intensities of the samples collected so far
Scalars ==
    IF SensorType = "photoresistor" THEN photoStatus
    ELSE [k \in 1..Len(asReadings) |-> AvgOf(asReadings[k])]

Spread == SetMax(Range(Scalars)) - SetMin(Range(Scalars))
Minimum == SetMin(Range(Scalars))

Classifications == {"Blinking", "On", "Off"}

\* a status command has collected its NumberOfChecks samples and printed its result
StatusDone ==
    /\ pc = "eot"
    /\ cmd = "status"
    /\ Scalars # <<>>
    /\ Len(Scalars) = NumberOfChecks

\* C1: for every sensor type, a sample set whose spread (largest minus smallest
\* scalar intensity) is greater than BlinkDiff is reported Blinking, whatever
\* its minimum is.
C1_SpreadDominates ==
    (StatusDone /\ Spread > BlinkDiff) => Last(out).k = "Blinking"

C1_Witness ==
    /\ StatusDone
    /\ SensorType = "as726x"
    /\ Spread > BlinkDiff
    /\ Minimum < LowerLimit
    /\ Last(out).k = "Blinking"

\* C2: for every sensor type, a sample set whose spread is at most BlinkDiff is
\* reported Off exactly when its minimum is below LowerLimit and On exactly
\* when its minimum is at least LowerLimit.
C2_LimitDecides ==
    (StatusDone /\ Spread <= BlinkDiff) =>
        /\ Last(out).k = "Off" <=> Minimum < LowerLimit
        /\ Last(out).k = "On" <=> Minimum >= LowerLimit

C2_Witness ==
    /\ StatusDone
    /\ SensorType = "photoresistor"
    /\ Spread = 0
    /\ Minimum = LowerLimit
    /\ Last(out).k = "On"

EotCount == Cardinality({k \in 1..Len(out) : out[k] = EOT})

\* C3: every response ends with exactly one end-of-transmission byte: while a
\* command runs none has been written, and when the dispatcher waits for the
\* next line exactly one has been written and it is the last thing written.
C3_OneEotLast ==
    /\ pc # "wait" => EotCount = 0
    /\ (pc = "wait" /\ cmd # "none") =>
          /\ out # <<>>
          /\ Last(out) = EOT
          /\ EotCount = 1

C3_Witness ==
    /\ pc = "wait"
    /\ cmd = "status"
    /\ out = <<Tok("ErrorAS726xConnect", <<>>), EOT>>

\* C4: with the as726x started, a sensor that never signals data-ready makes
\* the poll loop give up, and the response is exactly the error line
\* "Error: AS726x sensor is not returning data" and the end-of-transmission byte.
C4_PollTimesOut ==
    (pc = "asPoll" /\ amsHung)
        ~> (pc = "wait" /\ out = <<Tok("ErrorAS726xNoData", <<>>), EOT>>)

\* C5: processing is transient: once a line has been taken the dispatcher
\* eventually finishes the command and waits for the next line.
C5_ProcessingTransient == (pc # "wait") ~> (pc = "wait")

Dots(n) == [k \in 1..n |-> Tok("Dot", <<>>)]
RebootStarted == <<Tok("RebootStart", <<>>)>>
RebootFinished == RebootStarted \o Dots(RebootDelay) \o <<Tok("RebootDone", <<>>)>>

\* C6: reboot drives the relay high, writes exactly RebootDelay progress markers,
\* each with a one-second sleep and with the relay high, then drives the relay
\* low, and only then writes "Reboot Completed"; the relay is never low again
\* before the RebootDelay sleeps are made.
C6_RebootSequence ==
    /\ pc = "rebootLoop" =>
          /\ relayPin = "HIGH"
          /\ i <= RebootDelay
          /\ sleeps = i
          /\ out = RebootStarted \o Dots(i)
    /\ pc = "rebootDone" =>
          /\ relayPin = "LOW"
          /\ sleeps = RebootDelay
          /\ out = RebootStarted \o Dots(RebootDelay)
    /\ (cmd = "reboot" /\ pc = "eot") =>
          /\ relayPin = "LOW"
          /\ sleeps = RebootDelay
          /\ out = RebootFinished
    /\ (cmd = "reboot" /\ pc = "wait") =>
          /\ relayPin = "LOW"
          /\ sleeps = RebootDelay
          /\ out = RebootFinished \o <<EOT>>

C6_Witness ==
    /\ cmd = "reboot"
    /\ pc = "wait"
    /\ relayPin = "LOW"
    /\ Len(out) = RebootDelay + 3

\* C7: a status command that collects NumberOfChecks samples reads the sensor
\* exactly NumberOfChecks times and sleeps InterCheckDelay only between the
\* reads: NumberOfChecks - 1 sleeps.
C7_SleepsBetweenSamples ==
    (pc = "eot" /\ cmd = "status" /\ Last(out).k \in Classifications) =>
        /\ reads = NumberOfChecks
        /\ sleeps = NumberOfChecks - 1

\* C8: with NumberOfChecks 0 or 1 no status command reads a sample or prints a
\* classification.
C8_SmallCountRejected ==
    NumberOfChecks < MinChecks =>
        /\ reads = 0
        /\ \A k \in 1..Len(out) : out[k].k \notin Classifications

VerboseLines == {L_StatusVerbosePadded, L_StatusVerbose}
SilentLines == {L_Status, L_StatusCRLF, L_StatusNow}

SensorUsable ==
    \/ SensorType = "photoresistor"
    \/ SensorType = "as726x" /\ AS726xStarted
    \/ SensorType = "tcs34725" /\ TCS34725Started

\* what was written for the command, without the end-of-transmission byte
Body == IF pc = "wait" THEN SubSeq(out, 1, Len(out) - 1) ELSE out

ReadingCount == Cardinality({k \in 1..Len(out) : out[k].k = "Reading"})

\* the k-th echo line shows the k-th sample
EchoMatches(k) ==
    IF SensorType = "photoresistor"
    THEN out[k].v = seen[k]
    ELSE [x \in 1..Len(out[k].v) |-> ToInt(out[k].v[x])] = asReadings[k]

\* C9: for the line " STATUS VERBOSE " (and "status verbose") the response is
\* NumberOfChecks echo lines, one per sample and in order, then the single
\* classification line, then the end-of-transmission byte (a single error line
\* when the sensor is not usable); a status line without the verbose suffix
\* writes no echo line.
C9_VerboseEcho ==
    (pc \in {"eot", "wait"} /\ cmd # "none") =>
        /\ (rawLine \in VerboseLines /\ SensorUsable) =>
              /\ Len(Body) = NumberOfChecks + 1
              /\ \A k \in 1..NumberOfChecks : Body[k].k = "Reading"
              /\ Body[NumberOfChecks + 1].k \in Classifications
              /\ pc = "wait" => Last(out) = EOT
              /\ pc = "eot" => \A k \in 1..NumberOfChecks : EchoMatches(k)
        /\ (rawLine \in VerboseLines /\ ~SensorUsable) =>
              /\ Len(Body) = 1
              /\ Body[1].k \notin Classifications \cup {"Reading", "Unknown"}
        /\ (rawLine \in SilentLines) =>
              /\ ReadingCount = 0
              /\ Len(Body) = 1
              /\ SensorUsable => Body[1].k \in Classifications

C9_Witness ==
    /\ pc = "wait"
    /\ rawLine = L_StatusVerbosePadded
    /\ Len(out) = NumberOfChecks + 2
    /\ out[1].k = "Reading"
    /\ out[NumberOfChecks + 1].k \in Classifications
    /\ Last(out) = EOT

\* the dispatch table, on a normalized line
ExpectedCmd(s) ==
    CASE StartsWith(s, S_status) -> "status"
      [] s = S_reboot -> "reboot"
      [] s = S_reset -> "reset"
      [] s = S_help -> "help"
      [] s = S_settings -> "settings"
      [] s = S_ping -> "ping"
      [] s = S_version -> "version"
      [] OTHER -> "unknown"

NoticeOf(c) ==
    CASE c = "help" -> "Help"
      [] c = "settings" -> "Settings"
      [] c = "ping" -> "Pong"
      [] c = "version" -> "Version"
      [] c = "unknown" -> "Unknown"

\* C10: each normalized line triggers exactly the action the dispatch table
\* gives it: a line starting with "status" classifies (verbose exactly when it
\* ends with "verbose"), the six exact commands run their own action, and any
\* other line ("reboot now", the empty line) writes only the unknown notice.
C10_DispatchTable ==
    cmd # "none" =>
        /\ cmd = ExpectedCmd(serInput)
        /\ (cmd = "status" /\ pc # "wait") => (verbose <=> EndsWith(serInput, S_verbose))
        /\ cmd = "status" => \A k \in 1..Len(Body) :
              Body[k].k \notin {"RebootStart", "Dot", "RebootDone", "ResetNotice", "Help",
                                "Settings", "Pong", "Version", "Unknown"}
        /\ (cmd = "reboot" /\ out # <<>>) => Head(out).k = "RebootStart"
        /\ (cmd = "reset" /\ out # <<>>) => Body = <<Tok("ResetNotice", <<>>)>>
        /\ cmd \in {"help", "settings", "ping", "version", "unknown"} =>
              Body = <<Tok(NoticeOf(cmd), <<>>)>>
        /\ rawLine \in {L_RebootNow, L_Empty, L_Blank, L_Foo, L_VerboseStatus} =>
              cmd = "unknown"
        /\ (cmd \notin {"reboot"}) => relayPin = "LOW"
        /\ (cmd \notin {"status"}) => reads = 0

C10_Witness ==
    /\ pc = "eot"
    /\ rawLine = L_RebootNow
    /\ serInput = L_RebootNow
    /\ out = <<Tok("Unknown", <<>>)>>

\* C11: the configuration is read-only after startup: no step changes the
\* sensor type, the sample count or any of the other configured globals, which
\* keep the values they are initialised with.
C11_ConfigReadOnly ==
    /\ [](settings = StartupSettings)
    /\ [][/\ SensorType' = SensorType
          /\ NumberOfChecks' = NumberOfChecks
          /\ settings' = settings]_vars

C11_Witness ==
    /\ pc = "wait"
    /\ cmd = "settings"
    /\ resetPinMode = "OUTPUT"
    /\ settings = StartupSettings
    /\ out = <<Tok("Settings", <<>>), EOT>>

\* the error line of a status command whose sensor cannot be used
ExpectedError ==
    IF SensorType = "as726x" THEN Tok("ErrorAS726xConnect", <<>>)
    ELSE IF SensorType = "tcs34725" THEN Tok("ErrorTCS34725Connect", <<>>)
    ELSE Tok("ErrorInvalidSensorType", <<>>)

UnusableStatus == cmd = "status" /\ ~SensorUsable

\* C12: a status command on a backend that failed its startup check, or on an
\* unrecognized sensor type, reads no sample and makes no sleep, writes exactly
\* one error line and then the end-of-transmission byte, leaves the relay and
\* the reset line as they were, and goes on (a step can always be taken) to
\* the dispatcher waiting for the next line, which it can then take; this holds
\* for every such status command, also the later ones.
C12_UnusableSensor ==
    /\ [](UnusableStatus =>
            /\ reads = 0
            /\ sleeps = 0
            /\ seen = <<>>
            /\ pc \in {"status", "eot", "wait"}
            /\ pc = "status" => out = <<>>
            /\ pc = "eot" => out = <<ExpectedError>>
            /\ pc = "wait" => out = <<ExpectedError, EOT>>
            /\ pc # "wait" => ENABLED Step
            /\ pc = "wait" => ENABLED ReadLine)
    /\ [][(cmd' = "status" /\ ~SensorUsable) => pins' = pins]_vars

C12_Witness ==
    /\ pc = "wait"
    /\ cmd = "status"
    /\ SensorType = "bogus"
    /\ resetPinMode = "OUTPUT"
    /\ reads = 0
    /\ out = <<Tok("ErrorInvalidSensorType", <<>>), EOT>>

\* C13: the help text and the dispatch table name the same commands: every
\* command in the help text is accepted by the dispatcher, and every command
\* the dispatcher accepts and runs is one the help text lists.
C13_HelpMatchesDispatch ==
    /\ \A h \in HelpCommands : Dispatch(h) # "unknown"
    /\ cmd \notin {"none", "unknown"} =>
          \E h \in HelpCommands :
              /\ Dispatch(h) = cmd
              /\ (cmd = "status" /\ pc = "status") => (IsVerbose(h) <=> verbose)

MultiChannelDone == StatusDone /\ SensorType \in {"as726x", "tcs34725"}

\* C14: for the multi-channel sensors a Blinking result carries the channel
\* values of a sample whose average intensity is the maximum of the sample set,
\* and an On result carries the channel values of the first sample.
C14_Representative ==
    MultiChannelDone =>
        /\ Last(out).k = "Blinking" =>
              \E k \in 1..Len(asReadings) :
                  /\ Last(out).v = asReadings[k]
                  /\ AvgOf(asReadings[k]) = SetMax(Range(Scalars))
        /\ Last(out).k = "On" => Last(out).v = asReadings[1]

RECURSIVE Sum(_)
Sum(r) == IF r = <<>> THEN 0 ELSE Head(r) + Sum(Tail(r))

\* the truncating arithmetic mean of the raw channel readings
TrueMean(raw) == Sum(raw) \div Len(raw)

\* C17: a sample of the spectral or the color sensor is stored unchanged, and
\* its scalar intensity is the truncating mean of its 6 (3) channel readings,
\* for every reading of the unsigned 16-bit range, with int 16 bits wide.
C17_MeanExact ==
    pc \in {"asDelay", "tcsDelay"} =>
        /\ Last(asReadings) = Last(seen)
        /\ AvgOf(Last(asReadings)) = TrueMean(Last(seen))

ResetHeld == resetPinMode = "OUTPUT" /\ resetPin = "LOW"

\* C15: the reset command writes its notice first and then drives the reset
\* line low; once driven, the line stays an output held low whatever commands
\* follow, and the reset command does not change the relay output.
C15_ResetHeldLow ==
    /\ []((cmd = "reset" /\ pc = "resetDrive") => out = <<Tok("ResetNotice", <<>>)>>)
    /\ []((cmd = "reset" /\ pc \in {"eot", "wait"}) => ResetHeld)
    /\ [][ResetHeld => ResetHeld']_vars
    /\ [][cmd' = "reset" => relayPin' = relayPin]_vars

C15_Witness ==
    /\ ResetHeld
    /\ cmd = "status"
    /\ pc = "wait"
    /\ Last(out) = EOT

QuietCommands == {"status", "help", "settings", "ping", "version", "unknown"}

\* C16: the relay and the reset line are changed only by steps of the reboot
\* and the reset command: status, status verbose, help, settings, ping,
\* version and unknown lines leave both unchanged, reboot leaves the reset line
\* unchanged, and the relay is high only while a line that normalizes to
\* exactly "reboot" is being processed.
C16_PinsOwnActions ==
    /\ [][cmd' \in QuietCommands => pins' = pins]_vars
    /\ [][pins' # pins => cmd' \in {"reboot", "reset"}]_vars
    /\ [][cmd' = "reboot" => (resetPinMode' = resetPinMode /\ resetPin' = resetPin)]_vars
    /\ [](relayPin = "HIGH" =>
             /\ Normalize(rawLine) = S_reboot
             /\ cmd = "reboot"
             /\ pc = "rebootLoop")

C16_Witness ==
    /\ relayPin = "HIGH"
    /\ rawLine # S_reboot
    /\ i = RebootDelay
    /\ resetPinMode = "INPUT_PULLUP"

\* C19: whenever the dispatcher waits for an input line the relay output is
\* low, at startup and after any sequence of commands.
C19_RelayLowWhenWaiting == pc = "wait" => relayPin = "LOW"

C19_Witness ==
    /\ pc = "wait"
    /\ relayPin = "LOW"
    /\ cmd = "reboot"
    /\ ResetHeld
    /\ Last(out) = EOT

\* a classified status command that follows the first one
LaterStatus ==
    /\ pc = "eot"
    /\ cmd = "status"
    /\ Last(out).k \in Classifications
    /\ first.set

\* C18: a status command that observes the same sequence of readings as the
\* first classified status command of the run gives the same classification
\* and the same representative channel values, whatever ran in between.
C18_Idempotent ==
    (LaterStatus /\ seen = first.samples) => Last(out) = first.result

C18_Witness ==
    /\ LaterStatus
    /\ seen = first.samples
    /\ Last(out) = first.result
    /\ Last(out).k = "Blinking"
    /\ ResetHeld

====
